---- MODULE Spec2Model ----
(***************************************************************************)
(* Model of the unified API service (src/stack_data/api/app/main.py):      *)
(* the five request pipelines /chat, /voice, /image, /document, /classify, *)
(* the pure helpers detect_file_type and parse_clasificacion, and the       *)
(* scratch files of wav_to_ogg_base64 and office_to_pdf.                   *)
(*                                                                         *)
(* Text is a sequence of one-character strings, a byte buffer a sequence   *)
(* of integers 0..255, so that strip/split/upper/startswith and the magic  *)
(* byte comparisons are computed as the Python code computes them.         *)
(***************************************************************************)
EXTENDS Integers, Sequences, FiniteSets, TLC

VARIABLES
    endpoint,         \* which handler serves the request
    pc,               \* position of the handler: "start", "await_*", "done"
    req,              \* the request's inputs (texto / bytes / prompt / idioma / system_prompt)
    file_bytes,       \* document, classify: local file_bytes (replaced by the converted PDF)
    file_type,        \* document, classify: local file_type
    idioma,           \* local idioma
    images,           \* document, classify: pages returned by pdf_to_images
    page,             \* document: loop index i (0-based) of the page being analysed
    resultados,       \* document: list of per-page fragments
    respuesta_texto,  \* text that goes to TTS and to the reply
    clasif,           \* classify: record returned by parse_clasificacion
    wav_bytes,        \* body returned by TTS
    calls,            \* every collaborator call issued by the request, in order
    rets,             \* what each of those calls returned, in order
    reply,            \* the HTTP reply, once pc = "done"
    h_pc,             \* pure-function harness: position
    h_in,             \* pure-function harness: the input
    h_out,            \* pure-function harness: the result
    h_re,             \* parse harness: result of parsing the rendered record again
    h_tag,            \* sniffer harness: the detected format
    office_run,       \* document, classify: how the LibreOffice run of the request went
    tmp_name,         \* the random name tempfile gave the request's scratch path (0: none yet)
    fs,               \* the scratch files and directories that exist in the temp directory
    workers           \* worker processes inside wav_to_ogg_base64 / office_to_pdf

pipe_vars == <<endpoint, pc, req, file_bytes, file_type, idioma, images, page,
               resultados, respuesta_texto, clasif, wav_bytes, calls, rets, reply,
               office_run, tmp_name>>
harness_vars == <<h_pc, h_in, h_out, h_re, h_tag>>
vars == <<pipe_vars, harness_vars, fs, workers>>

-----------------------------------------------------------------------------
(* Bounds of the model *)

\* pages a rasterized PDF may have (0..MaxPages)
MaxPages == 3
\* lines of a classifier answer fed to parse_clasificacion (0..MaxLines)
MaxLines == 3
\* how far around the scan window's end the sniffer inputs place a marker
PadSlack == 2
\* random names tempfile can draw (1..MaxNames)
MaxNames == 2
\* worker processes that share the temp directory (1..MaxWorkers)
MaxWorkers == 2

-----------------------------------------------------------------------------
(* Python str / bytes primitives *)

Min(a, b) == IF a < b THEN a ELSE b

\* s[lo:hi] of Python, 0-based, clamped to the sequence
Slice(s, lo, hi) == SubSeq(s, Min(lo, Len(s)) + 1, Min(hi, Len(s)))

\* needle in hay (bytes.__contains__, str.__contains__)
Contains(hay, needle) ==
    \E k \in 1..(Len(hay) - Len(needle) + 1) :
        SubSeq(hay, k, k + Len(needle) - 1) = needle

\* s.startswith(p)
StartsWith(s, p) == Len(s) >= Len(p) /\ SubSeq(s, 1, Len(p)) = p

\* characters str.strip() removes
IsSpace(c) == c \in {" ", "\n", "\t", "\r"}

RECURSIVE LStrip(_)
LStrip(s) == IF s = <<>> THEN <<>>
             ELSE IF IsSpace(Head(s)) THEN LStrip(Tail(s)) ELSE s

RECURSIVE RStrip(_)
RStrip(s) == IF s = <<>> THEN <<>>
             ELSE IF IsSpace(s[Len(s)]) THEN RStrip(SubSeq(s, 1, Len(s) - 1)) ELSE s

\* s.strip()
Strip(s) == RStrip(LStrip(s))

\* index of the first c in s, 0 when there is none
RECURSIVE IndexOf(_, _)
IndexOf(s, c) == IF s = <<>> THEN 0
                 ELSE IF Head(s) = c THEN 1
                 ELSE LET r == IndexOf(Tail(s), c) IN IF r = 0 THEN 0 ELSE r + 1

\* s.split(sep) for a one-character separator: "".split("\n") is [""]
RECURSIVE Split(_, _)
Split(s, sep) ==
    LET k == IndexOf(s, sep) IN
    IF k = 0 THEN <<s>>
    ELSE <<SubSeq(s, 1, k - 1)>> \o Split(SubSeq(s, k + 1, Len(s)), sep)

\* s.split(":", 1)[1]: what follows the first colon
AfterFirstColon(s) == SubSeq(s, IndexOf(s, ":") + 1, Len(s))

LowerLetters ==
    <<"a", "b", "c", "d", "e", "f", "g", "h", "i", "j", "k", "l", "m", "n", "o", "p",
      "q", "r", "s", "t", "u", "v", "w", "x", "y", "z", "á", "é", "í", "ó", "ú", "ñ">>
UpperLetters ==
    <<"A", "B", "C", "D", "E", "F", "G", "H", "I", "J", "K", "L", "M", "N", "O", "P",
      "Q", "R", "S", "T", "U", "V", "W", "X", "Y", "Z", "Á", "É", "Í", "Ó", "Ú", "Ñ">>

UpperChar(c) ==
    IF \E k \in 1..Len(LowerLetters) : LowerLetters[k] = c
    THEN UpperLetters[CHOOSE k \in 1..Len(LowerLetters) : LowerLetters[k] = c]
    ELSE c
LowerChar(c) ==
    IF \E k \in 1..Len(UpperLetters) : UpperLetters[k] = c
    THEN LowerLetters[CHOOSE k \in 1..Len(UpperLetters) : UpperLetters[k] = c]
    ELSE c

\* s.upper(), s.lower()
Upper(s) == [k \in 1..Len(s) |-> UpperChar(s[k])]
Lower(s) == [k \in 1..Len(s) |-> LowerChar(s[k])]

\* sep.join(parts)
RECURSIVE Join(_, _)
Join(sep, parts) ==
    IF parts = <<>> THEN <<>>
    ELSE IF Len(parts) = 1 THEN parts[1]
    ELSE parts[1] \o sep \o Join(sep, Tail(parts))

\* str(n) for n >= 0
Digits == <<"0", "1", "2", "3", "4", "5", "6", "7", "8", "9">>
RECURSIVE Str(_)
Str(n) == IF n < 10 THEN <<Digits[n + 1]>>
          ELSE Str(n \div 10) \o <<Digits[(n % 10) + 1]>>

\* elements of a sequence
Range(s) == {s[k] : k \in 1..Len(s)}

-----------------------------------------------------------------------------
(* Text constants of the program *)

T_CSF ==
    <<"C", "S", "F">>
T_INE ==
    <<"I", "N", "E">>
T_Pasaporte ==
    <<"P", "a", "s", "a", "p", "o", "r", "t", "e">>
T_TituloDePropiedad ==
    <<"T", "í", "t", "u", "l", "o", " ", "d", "e", " ", "p", "r", "o", "p", "i", "e", "d",
      "a", "d">>
T_ReciboDeLuz ==
    <<"R", "e", "c", "i", "b", "o", " ", "d", "e", " ", "l", "u", "z">>
T_ReciboDeAgua ==
    <<"R", "e", "c", "i", "b", "o", " ", "d", "e", " ", "a", "g", "u", "a">>
T_ReciboDeGas ==
    <<"R", "e", "c", "i", "b", "o", " ", "d", "e", " ", "g", "a", "s">>
T_Predial ==
    <<"P", "r", "e", "d", "i", "a", "l">>
T_ActaConstitutiva ==
    <<"A", "c", "t", "a", " ", "c", "o", "n", "s", "t", "i", "t", "u", "t", "i", "v",
      "a">>
T_PoderNotarial ==
    <<"P", "o", "d", "e", "r", " ", "n", "o", "t", "a", "r", "i", "a", "l">>
T_ComprobanteDeDomicilio ==
    <<"C", "o", "m", "p", "r", "o", "b", "a", "n", "t", "e", " ", "d", "e", " ", "d", "o",
      "m", "i", "c", "i", "l", "i", "o">>
T_EstadoDeCuentaBancario ==
    <<"E", "s", "t", "a", "d", "o", " ", "d", "e", " ", "c", "u", "e", "n", "t", "a", " ",
      "b", "a", "n", "c", "a", "r", "i", "o">>
T_CURP ==
    <<"C", "U", "R", "P">>
T_ActaDeNacimiento ==
    <<"A", "c", "t", "a", " ", "d", "e", " ", "n", "a", "c", "i", "m", "i", "e", "n", "t",
      "o">>
T_ComprobanteDeIngresos ==
    <<"C", "o", "m", "p", "r", "o", "b", "a", "n", "t", "e", " ", "d", "e", " ", "i", "n",
      "g", "r", "e", "s", "o", "s">>
T_Contrato ==
    <<"C", "o", "n", "t", "r", "a", "t", "o">>
T_Factura ==
    <<"F", "a", "c", "t", "u", "r", "a">>
T_Otro ==
    <<"O", "t", "r", "o">>
TIPOS_DOCUMENTO ==
    <<T_CSF, T_INE, T_Pasaporte, T_TituloDePropiedad,
      T_ReciboDeLuz, T_ReciboDeAgua, T_ReciboDeGas, T_Predial,
      T_ActaConstitutiva, T_PoderNotarial, T_ComprobanteDeDomicilio, T_EstadoDeCuentaBancario,
      T_CURP, T_ActaDeNacimiento, T_ComprobanteDeIngresos, T_Contrato,
      T_Factura, T_Otro>>
PromptClasificacionHead ==
    <<"A", "n", "a", "l", "i", "z", "a", " ", "e", "s", "t", "e", " ", "d", "o", "c", "u",
      "m", "e", "n", "t", "o", " ", "y", " ", "c", "l", "a", "s", "i", "f", "í", "c", "a",
      "l", "o", " ", "e", "n", " ", "u", "n", "a", " ", "d", "e", " ", "l", "a", "s", " ",
      "s", "i", "g", "u", "i", "e", "n", "t", "e", "s", " ", "c", "a", "t", "e", "g", "o",
      "r", "í", "a", "s", ":", "\n">>
PromptClasificacionTail ==
    <<"\n", "\n", "R", "e", "s", "p", "o", "n", "d", "e", " ", "S", "O", "L", "O", " ",
      "c", "o", "n", " ", "e", "l", " ", "f", "o", "r", "m", "a", "t", "o", ":", "\n",
      "T", "I", "P", "O", ":", " ", "[", "c", "a", "t", "e", "g", "o", "r", "í", "a", "]",
      "\n", "C", "O", "N", "F", "I", "A", "N", "Z", "A", ":", " ", "[", "a", "l", "t",
      "a", "/", "m", "e", "d", "i", "a", "/", "b", "a", "j", "a", "]", "\n", "D", "E",
      "S", "C", "R", "I", "P", "C", "I", "O", "N", ":", " ", "[", "b", "r", "e", "v", "e",
      " ", "d", "e", "s", "c", "r", "i", "p", "c", "i", "ó", "n", " ", "d", "e", "l", " ",
      "d", "o", "c", "u", "m", "e", "n", "t", "o", "]", "\n", "\n", "S", "i", " ", "n",
      "o", " ", "p", "u", "e", "d", "e", "s", " ", "i", "d", "e", "n", "t", "i", "f", "i",
      "c", "a", "r", " ", "e", "l", " ", "d", "o", "c", "u", "m", "e", "n", "t", "o", ",",
      " ", "u", "s", "a", " ", "\"", "O", "t", "r", "o", "\"", " ", "c", "o", "m", "o",
      " ", "t", "i", "p", "o", ".">>
SYSTEM_PROMPT ==
    <<"E", "r", "e", "s", " ", "u", "n", " ", "a", "s", "i", "s", "t", "e", "n", "t", "e",
      " ", "ú", "t", "i", "l", ".", " ", "R", "e", "s", "p", "o", "n", "d", "e", " ", "d",
      "e", " ", "f", "o", "r", "m", "a", " ", "c", "o", "n", "c", "i", "s", "a", ".">>
VISION_SYSTEM_PROMPT ==
    <<"E", "r", "e", "s", " ", "u", "n", " ", "a", "s", "i", "s", "t", "e", "n", "t", "e",
      " ", "e", "x", "p", "e", "r", "t", "o", " ", "e", "n", " ", "a", "n", "á", "l", "i",
      "s", "i", "s", " ", "d", "e", " ", "i", "m", "á", "g", "e", "n", "e", "s", " ", "y",
      " ", "d", "o", "c", "u", "m", "e", "n", "t", "o", "s", ".">>
IMAGE_DEFAULT_PROMPT ==
    <<"D", "e", "s", "c", "r", "i", "b", "e", " ", "e", "s", "t", "a", " ", "i", "m", "a",
      "g", "e", "n", " ", "e", "n", " ", "d", "e", "t", "a", "l", "l", "e", ".">>
DOCUMENT_DEFAULT_PROMPT ==
    <<"A", "n", "a", "l", "i", "z", "a", " ", "e", "s", "t", "e", " ", "d", "o", "c", "u",
      "m", "e", "n", "t", "o", " ", "y", " ", "e", "x", "t", "r", "a", "e", " ", "l", "a",
      " ", "i", "n", "f", "o", "r", "m", "a", "c", "i", "ó", "n", " ", "i", "m", "p", "o",
      "r", "t", "a", "n", "t", "e", ".">>
KEY_TIPO ==
    <<"T", "I", "P", "O", ":">>
KEY_CONFIANZA ==
    <<"C", "O", "N", "F", "I", "A", "N", "Z", "A", ":">>
KEY_DESCRIPCION ==
    <<"D", "E", "S", "C", "R", "I", "P", "C", "I", "O", "N", ":">>
KEY_DESCRIPCION_ACENTO ==
    <<"D", "E", "S", "C", "R", "I", "P", "C", "I", "Ó", "N", ":">>
CONF_ALTA ==
    <<"a", "l", "t", "a">>
CONF_MEDIA ==
    <<"m", "e", "d", "i", "a">>
CONF_BAJA ==
    <<"b", "a", "j", "a">>
HeaderHead ==
    <<"-", "-", "-", " ", "P", "á", "g", "i", "n", "a", " ">>
HeaderTail ==
    <<" ", "-", "-", "-", "\n">>
PagePromptHead ==
    <<"P", "á", "g", "i", "n", "a", " ">>
PagePromptSep ==
    <<":", " ">>
TextoAudioHead ==
    <<"D", "o", "c", "u", "m", "e", "n", "t", "o", " ", "i", "d", "e", "n", "t", "i", "f",
      "i", "c", "a", "d", "o", " ", "c", "o", "m", "o", " ">>
TextoAudioSep ==
    <<".", " ">>

PROMPT_CLASIFICACION ==
    PromptClasificacionHead \o Join(<<",", " ">>, TIPOS_DOCUMENTO) \o PromptClasificacionTail

-----------------------------------------------------------------------------
(* parse_clasificacion *)

\* one iteration of the loop over the lines
ParseLineSoloAcento(rec, line) ==
    LET line_upper == Upper(line) IN
    IF StartsWith(line_upper, KEY_TIPO)
    THEN [rec EXCEPT !.tipo = Strip(AfterFirstColon(line))]
    ELSE IF StartsWith(line_upper, KEY_CONFIANZA)
    THEN [rec EXCEPT !.confianza = Lower(Strip(AfterFirstColon(line)))]
    ELSE IF StartsWith(line_upper, KEY_DESCRIPCION_ACENTO)
    THEN [rec EXCEPT !.descripcion = Strip(AfterFirstColon(line))]
    ELSE rec
ParseLine(rec, line) ==
    LET line_upper == Upper(line) IN
    IF StartsWith(line_upper, KEY_TIPO)
    THEN [rec EXCEPT !.tipo = Strip(AfterFirstColon(line))]
    ELSE IF StartsWith(line_upper, KEY_CONFIANZA)
    THEN [rec EXCEPT !.confianza = Lower(Strip(AfterFirstColon(line)))]
    ELSE IF StartsWith(line_upper, KEY_DESCRIPCION)
            \/ StartsWith(line_upper, KEY_DESCRIPCION_ACENTO)
    THEN [rec EXCEPT !.descripcion = Strip(AfterFirstColon(line))]
    ELSE rec

RECURSIVE ParseLines(_, _)
ParseLines(rec, lines) ==
    IF lines = <<>> THEN rec
    ELSE ParseLines(ParseLine(rec, Head(lines)), Tail(lines))

\* the validation of tipo that closes parse_clasificacion
ValidarTipoSinFiltro(tipo) == tipo
ValidarTipo(tipo) == IF tipo \in Range(TIPOS_DOCUMENTO) THEN tipo ELSE T_Otro

parse_clasificacion(texto) ==
    LET r == ParseLines([tipo |-> T_Otro, confianza |-> CONF_BAJA, descripcion |-> texto],
                        Split(Strip(texto), "\n"))
    IN  [r EXCEPT !.tipo = ValidarTipo(r.tipo)]

-----------------------------------------------------------------------------
(* detect_file_type *)

MAGIC_PDF == <<37, 80, 68, 70>>
MAGIC_PNG == <<137, 80, 78, 71, 13, 10, 26, 10>>
MAGIC_JPEG == <<255, 216>>
MAGIC_GIF == <<71, 73, 70, 56>>
MAGIC_RIFF == <<82, 73, 70, 70>>
MAGIC_WEBP == <<87, 69, 66, 80>>
MAGIC_ZIP == <<80, 75, 3, 4>>
MAGIC_OLE2 == <<208, 207, 17, 224, 161, 177, 26, 225>>
MARK_WORD == <<119, 111, 114, 100, 47>>
MARK_XL == <<120, 108, 47>>
MARK_PPT == <<112, 112, 116, 47>>

\* file_bytes[:2000]
ScanWindow == 2000

\* the branch taken once the buffer starts with PK\x03\x04
ZipKindWholeBuffer(b) ==
    IF Contains(b, MARK_WORD) THEN "docx"
    ELSE IF Contains(b, MARK_XL) THEN "xlsx"
    ELSE IF Contains(b, MARK_PPT) THEN "pptx"
    ELSE "zip"
ZipKind(b) ==
    IF Contains(Slice(b, 0, ScanWindow), MARK_WORD) THEN "docx"
    ELSE IF Contains(Slice(b, 0, ScanWindow), MARK_XL) THEN "xlsx"
    ELSE IF Contains(Slice(b, 0, ScanWindow), MARK_PPT) THEN "pptx"
    ELSE "zip"

\* the same chain with the RIFF test alone deciding webp
detect_file_type_RiffSolo(b) ==
    IF Slice(b, 0, 4) = MAGIC_PDF THEN "pdf"
    ELSE IF Slice(b, 0, 8) = MAGIC_PNG THEN "png"
    ELSE IF Slice(b, 0, 2) = MAGIC_JPEG THEN "jpeg"
    ELSE IF Slice(b, 0, 4) = MAGIC_GIF THEN "gif"
    ELSE IF Slice(b, 0, 4) = MAGIC_RIFF THEN "webp"
    ELSE IF Slice(b, 0, 4) = MAGIC_ZIP THEN ZipKind(b)
    ELSE IF Slice(b, 0, 8) = MAGIC_OLE2 THEN "doc"
    ELSE "unknown"
detect_file_type(b) ==
    IF Slice(b, 0, 4) = MAGIC_PDF THEN "pdf"
    ELSE IF Slice(b, 0, 8) = MAGIC_PNG THEN "png"
    ELSE IF Slice(b, 0, 2) = MAGIC_JPEG THEN "jpeg"
    ELSE IF Slice(b, 0, 4) = MAGIC_GIF THEN "gif"
    ELSE IF Slice(b, 0, 4) = MAGIC_RIFF /\ Slice(b, 8, 12) = MAGIC_WEBP THEN "webp"
    ELSE IF Slice(b, 0, 4) = MAGIC_ZIP THEN ZipKind(b)
    ELSE IF Slice(b, 0, 8) = MAGIC_OLE2 THEN "doc"
    ELSE "unknown"

OFFICE_TYPES == {"docx", "doc", "xlsx", "xls", "pptx", "ppt"}
IMAGE_TYPES == {"png", "jpeg", "gif", "webp"}

-----------------------------------------------------------------------------
(* Sample texts: lines of classifier answers, the rendering of a record *)

L_TipoFactura ==
    <<"T", "I", "P", "O", ":", " ", "F", "a", "c", "t", "u", "r", "a">>
L_TipoLowerKey ==
    <<"t", "i", "p", "o", ":", "I", "N", "E", " ">>
L_TipoWrongCase ==
    <<"T", "I", "P", "O", ":", " ", "f", "a", "c", "t", "u", "r", "a">>
L_TipoUnknown ==
    <<"T", "I", "P", "O", ":", " ", "M", "a", "r", "c", "i", "a", "n", "o">>
L_ConfAlta ==
    <<"C", "O", "N", "F", "I", "A", "N", "Z", "A", ":", " ", "A", "l", "t", "a">>
L_ConfMedia ==
    <<"c", "o", "n", "f", "i", "a", "n", "z", "a", ":", " ", "m", "e", "d", "i", "a">>
L_ConfOther ==
    <<"C", "O", "N", "F", "I", "A", "N", "Z", "A", ":", " ", "m", "u", "y", " ", "a", "l",
      "t", "a">>
L_ConfEmpty ==
    <<"C", "O", "N", "F", "I", "A", "N", "Z", "A", ":">>
L_Desc ==
    <<"D", "E", "S", "C", "R", "I", "P", "C", "I", "O", "N", ":", " ", "r", "e", "c", "i",
      "b", "o">>
L_DescAcento ==
    <<"D", "e", "s", "c", "r", "i", "p", "c", "i", "ó", "n", ":", " ", "a", ":", "b">>
L_Plain ==
    <<" ", "h", "o", "l", "a", " ">>
L_Empty ==
    <<>>
RenderTipo ==
    <<"T", "I", "P", "O", ":", " ">>
RenderConfianza ==
    <<"\n", "C", "O", "N", "F", "I", "A", "N", "Z", "A", ":", " ">>
RenderDescripcion ==
    <<"\n", "D", "E", "S", "C", "R", "I", "P", "C", "I", "O", "N", ":", " ">>
ANS_CLASIF_OK ==
    <<"T", "I", "P", "O", ":", " ", "R", "e", "c", "i", "b", "o", " ", "d", "e", " ", "l",
      "u", "z", "\n", "C", "O", "N", "F", "I", "A", "N", "Z", "A", ":", " ", "a", "l",
      "t", "a", "\n", "D", "E", "S", "C", "R", "I", "P", "C", "I", "O", "N", ":", " ",
      "r", "e", "c", "i", "b", "o">>
ANS_CLASIF_ODD ==
    <<"T", "I", "P", "O", ":", " ", "M", "a", "r", "c", "i", "a", "n", "o", "\n", "C",
      "O", "N", "F", "I", "A", "N", "Z", "A", ":", " ", "m", "u", "y", " ", "a", "l", "t",
      "a">>

-----------------------------------------------------------------------------
(* The pure functions applied to bounded inputs *)

NoRecord == [tipo |-> <<>>, confianza |-> <<>>, descripcion |-> <<>>]

\* lines a vision model may answer with
ParseLinePool ==
    {L_TipoFactura, L_TipoLowerKey, L_TipoWrongCase, L_TipoUnknown,
     L_ConfAlta, L_ConfMedia, L_ConfOther, L_ConfEmpty,
     L_Desc, L_DescAcento, L_Plain, L_Empty}

\* every text of at most MaxLines lines of the pool, joined by "\n"
ParseInputs ==
    {Join(<<"\n">>, ls) : ls \in UNION {[1..n -> ParseLinePool] : n \in 0..MaxLines}}

\* the text 'TIPO: t\nCONFIANZA: c\nDESCRIPCION: d' of a record
Render(rec) ==
    RenderTipo \o rec.tipo \o RenderConfianza \o rec.confianza
        \o RenderDescripcion \o rec.descripcion

Zeros(n) == [k \in 1..n |-> 0]

\* buffers that do not start with the ZIP signature
PlainBuffers ==
    {head \o tail :
        head \in {<<>>, <<0>>, MAGIC_PDF, MAGIC_PNG, MAGIC_JPEG, MAGIC_GIF, MAGIC_RIFF,
                  MAGIC_RIFF \o Zeros(4) \o MAGIC_WEBP,
                  MAGIC_RIFF \o Zeros(4) \o <<87, 65, 86, 69>>,
                  MAGIC_RIFF \o Zeros(3) \o MAGIC_WEBP,
                  SubSeq(MAGIC_ZIP, 1, 3), SubSeq(MAGIC_PNG, 1, 7), MAGIC_OLE2},
        tail \in {<<>>, MARK_XL, MARK_WORD \o Zeros(1)}}

\* distance from the ZIP signature to the first marker: next to the signature,
\* or such that the marker straddles the end of the scan window
ZipPads ==
    {0} \cup ((ScanWindow - Len(MAGIC_ZIP) - Len(MARK_WORD) - PadSlack)
                ..(ScanWindow - Len(MAGIC_ZIP) - Len(MARK_XL) + PadSlack))

\* buffers that start with the ZIP signature, with up to two markers
ZipBuffers ==
    {MAGIC_ZIP \o Zeros(p1) \o m1 \o Zeros(p2) \o m2 :
        p1 \in ZipPads, p2 \in {0, 1},
        m1 \in {<<>>, MARK_WORD, MARK_XL, MARK_PPT},
        m2 \in {<<>>, MARK_WORD, MARK_XL, MARK_PPT}}

DetectInputs == PlainBuffers \cup ZipBuffers

-----------------------------------------------------------------------------
(* base64.b64encode *)

B64Alphabet ==
    <<"A", "B", "C", "D", "E", "F", "G", "H", "I", "J", "K", "L", "M", "N", "O", "P",
      "Q", "R", "S", "T", "U", "V", "W", "X", "Y", "Z", "a", "b", "c", "d", "e", "f",
      "g", "h", "i", "j", "k", "l", "m", "n", "o", "p", "q", "r", "s", "t", "u", "v",
      "w", "x", "y", "z", "0", "1", "2", "3", "4", "5", "6", "7", "8", "9", "+", "/">>

RECURSIVE b64encode(_)
b64encode(b) ==
    IF Len(b) = 0 THEN <<>>
    ELSE IF Len(b) = 1
    THEN <<B64Alphabet[(b[1] \div 4) + 1], B64Alphabet[((b[1] % 4) * 16) + 1], "=", "=">>
    ELSE IF Len(b) = 2
    THEN <<B64Alphabet[(b[1] \div 4) + 1],
           B64Alphabet[((b[1] % 4) * 16) + (b[2] \div 16) + 1],
           B64Alphabet[((b[2] % 16) * 4) + 1], "=">>
    ELSE <<B64Alphabet[(b[1] \div 4) + 1],
           B64Alphabet[((b[1] % 4) * 16) + (b[2] \div 16) + 1],
           B64Alphabet[((b[2] % 16) * 4) + (b[3] \div 64) + 1],
           B64Alphabet[(b[3] % 64) + 1]>> \o b64encode(SubSeq(b, 4, Len(b)))

image_to_base64(image_bytes) == b64encode(image_bytes)

-----------------------------------------------------------------------------
(* Collaborator calls and what they return *)

\* a call: the collaborator and the arguments the code passes to it
Call(svc, bytes, img, text, sys, lang) ==
    [svc |-> svc, bytes |-> bytes, img |-> img, text |-> text, sys |-> sys, lang |-> lang]

\* x or default, for an optional value (<<>> is None, <<v>> is the value v)
OrDefault(opt, default, empty) ==
    IF opt = <<>> \/ opt[1] = empty THEN default ELSE opt[1]

\* payload of call_stt
SttCall(audio_bytes) == Call("stt", audio_bytes, <<>>, <<>>, <<>>, <<>>)
\* payload of call_llm: prompt = system_prompt or SYSTEM_PROMPT
LlmCall(texto, system_prompt) ==
    Call("llm", <<>>, <<>>, texto, OrDefault(system_prompt, SYSTEM_PROMPT, <<>>), <<>>)
\* payload of call_llm_vision, always with the default system prompt
VisionCall(image_b64, prompt) ==
    Call("vision", <<>>, image_b64, prompt, VISION_SYSTEM_PROMPT, <<>>)
\* payload of call_tts
TtsCall(texto, lang) == Call("tts", <<>>, <<>>, texto, <<>>, <<lang>>)
\* the libreoffice run of office_to_pdf, on input<ext>
EXTENSIONS(ft) ==
    CASE ft = "docx" -> ".docx" [] ft = "doc" -> ".doc"
      [] ft = "xlsx" -> ".xlsx" [] ft = "xls" -> ".xls"
      [] ft = "pptx" -> ".pptx" [] ft = "ppt" -> ".ppt"
      [] OTHER -> ".docx"
OfficeCall(bytes, ft) == Call("office", bytes, <<>>, <<>>, <<>>, <<EXTENSIONS(ft)>>)
\* convert_from_bytes of pdf_to_images
RasterCall(pdf_bytes) == Call("raster", pdf_bytes, <<>>, <<>>, <<>>, <<>>)
\* the ffmpeg run of wav_to_ogg_base64
FfmpegCall(wav) == Call("ffmpeg", wav, <<>>, <<>>, <<>>, <<>>)

\* what a call returned: status "ok", or how it failed
Ret(status, text, bytes, lang, n) ==
    [status |-> status, text |-> text, bytes |-> bytes, lang |-> lang, n |-> n]
Failure(status) == Ret(status, <<>>, <<>>, <<>>, 0)

\* answers of the text and vision models; data.get("message", {}).get("content", "")
LlmAnswers == {<<>>, <<"o", "k">>}
VisionAnswers == {<<>>, <<"P">>, ANS_CLASIF_OK, ANS_CLASIF_ODD}

HttpRets == {Failure("http_error"), Failure("exception")}
SttRets ==
    {Ret("ok", t, <<>>, l, 0) : t \in {<<>>, <<"h", "o", "l", "a">>},
                                 l \in {<<>>, <<"">>, <<"en">>}} \cup HttpRets
LlmRets == {Ret("ok", t, <<>>, <<>>, 0) : t \in LlmAnswers} \cup HttpRets
VisionRets == {Ret("ok", t, <<>>, <<>>, 0) : t \in VisionAnswers} \cup HttpRets
SAMPLE_WAV == <<82, 73, 70, 70>>
TtsRets == {Ret("ok", <<>>, b, <<>>, 0) : b \in {<<>>, SAMPLE_WAV}} \cup HttpRets
SAMPLE_PDF == MAGIC_PDF \o <<45, 49>>

\* subprocess.run(..., timeout=120)
OFFICE_TIMEOUT == 120

\* a run of LibreOffice: how long it takes, its exit code, and the input.pdf it
\* leaves in the directory (<<>> when it leaves none)
NoRun == [seconds |-> 0, returncode |-> 0, pdf |-> <<>>]
ConverterRuns ==
    [seconds : {1, OFFICE_TIMEOUT + 1}, returncode : {0, 1}, pdf : {<<>>, <<SAMPLE_PDF>>}]

\* office_to_pdf from subprocess.run on: TimeoutExpired, the returncode test,
\* the os.path.exists test, then the bytes of input.pdf
office_to_pdf_SinReturncode(run) ==
    IF run.seconds > OFFICE_TIMEOUT THEN Failure("timeout")
    ELSE IF run.pdf = <<>> THEN Failure("no_output")
    ELSE Ret("ok", <<>>, run.pdf[1], <<>>, 0)
office_to_pdf(run) ==
    IF run.seconds > OFFICE_TIMEOUT THEN Failure("timeout")
    ELSE IF run.returncode # 0 THEN Failure("nonzero_exit")
    ELSE IF run.pdf = <<>> THEN Failure("no_output")
    ELSE Ret("ok", <<>>, run.pdf[1], <<>>, 0)

OfficeRets == {office_to_pdf(run) : run \in ConverterRuns}
RasterRets == {Ret("ok", <<>>, <<>>, <<>>, n) : n \in 0..MaxPages} \cup {Failure("exception")}
SAMPLE_OGG == <<79, 103, 103, 83>>
\* ffmpeg exits 0 and the OGG is read, ffmpeg exits non-zero (check=True
\* raises), or ffmpeg exits 0 and open/read of the OGG raises
FfmpegRets ==
    {Ret("ok", <<>>, SAMPLE_OGG, <<>>, 0), Failure("nonzero_exit"), Failure("read_failed")}

-----------------------------------------------------------------------------
(* Scratch paths *)

Names == 1..MaxNames

\* tmpXXXXXXXX.wav, tmpXXXXXXXX.ogg, and the directory tmpXXXXXXXX
Path(kind, name) == [kind |-> kind, name |-> name]

\* the names tempfile can return for a suffix: those whose path does not exist
FreeNames(files, kind) == {n \in Names : Path(kind, n) \notin files}

\* ogg_path = wav_path.replace(".wav", ".ogg")
OggPath(wav_path) == Path("ogg", wav_path.name)

\* the files after ffmpeg ran on wav_path: exit 0 leaves the OGG, a non-zero
\* exit leaves whatever was there
AfterFfmpeg(files, wav_path, ret) ==
    IF ret.status = "nonzero_exit" THEN files ELSE files \cup {OggPath(wav_path)}

\* the finally clause of wav_to_ogg_base64
UnlinkWavOgg(files, wav_path) == files \ {wav_path, OggPath(wav_path)}

\* leaving "with tempfile.TemporaryDirectory()": the directory and its files go
CleanupDir(files, name) == files \ {Path("dir", name), Path("input", name), Path("pdf", name)}

\* a collaborator call that did not succeed: it raises in the caller
CallFailedOnlyOnException(ret) == ret.status \notin {"ok", "http_error"}
CallFailed(ret) == ret.status # "ok"

\* the PNG that pdf_to_images saves for physical page k
PageImage(k) == MAGIC_PNG \o <<k>>
pdf_to_images(n) == [k \in 1..n |-> PageImage(k)]

-----------------------------------------------------------------------------
(* Replies *)

NoReply ==
    [status |-> 0, detail |-> "", texto |-> <<>>, audio_b64 |-> <<>>, idioma |-> "",
     tipo_documento |-> <<>>, confianza |-> <<>>, descripcion |-> <<>>]

\* raise HTTPException(status_code, detail)
HTTPException(status, detail) == [NoReply EXCEPT !.status = status, !.detail = detail]

\* the message of each endpoint's "except Exception" handler
StageLabel(ep) ==
    CASE ep = "chat"     -> "Error procesando chat"
      [] ep = "voice"    -> "Error procesando voice"
      [] ep = "image"    -> "Error procesando imagen"
      [] ep = "document" -> "Error procesando documento"
      [] ep = "classify" -> "Error clasificando documento"

\* the detail of the HTTPException each call_* raises on a non-200 reply
HttpErrorLabel(svc) ==
    CASE svc = "stt"    -> "Error en STT"
      [] svc = "llm"    -> "Error en LLM"
      [] svc = "vision" -> "Error en LLM Vision"
      [] svc = "tts"    -> "Error en TTS"

\* the reply when a call failed: the HTTPException of call_* passes through
\* "except HTTPException: raise", anything else is wrapped by "except Exception"
FailureReplyTodoEnvuelto(ep, svc, ret) == HTTPException(500, StageLabel(ep))
FailureReply(ep, svc, ret) ==
    IF ret.status = "http_error"
    THEN HTTPException(500, HttpErrorLabel(svc))
    ELSE HTTPException(500, StageLabel(ep))

\* ChatResponse / ClassifyResponse
ChatResponse(texto, audio_b64, lang) ==
    [NoReply EXCEPT !.status = 200, !.texto = texto, !.audio_b64 = audio_b64,
                    !.idioma = lang]
ClassifyResponse(rec, texto, audio_b64, lang) ==
    [NoReply EXCEPT !.status = 200, !.texto = texto, !.audio_b64 = audio_b64,
                    !.idioma = lang, !.tipo_documento = rec.tipo,
                    !.confianza = rec.confianza, !.descripcion = rec.descripcion]

-----------------------------------------------------------------------------
(* Requests *)

Endpoints == {"chat", "voice", "image", "document", "classify"}

Req(texto, bytes, prompt, lang, system_prompt) ==
    [texto |-> texto, bytes |-> bytes, prompt |-> prompt, idioma |-> lang,
     system_prompt |-> system_prompt]

CUSTOM_PROMPT == <<"Q", "?">>
SAMPLE_PNG == MAGIC_PNG \o <<0>>
SAMPLE_DOCX == MAGIC_ZIP \o Zeros(2) \o MARK_WORD
SAMPLE_XLSX == MAGIC_ZIP \o MARK_XL

\* uploads: empty, PDF, images, office files, a plain ZIP, an unknown format
SampleFiles ==
    {<<>>, SAMPLE_PDF, SAMPLE_PNG, MAGIC_JPEG \o <<224>>, SAMPLE_DOCX, SAMPLE_XLSX,
     MAGIC_OLE2, MAGIC_ZIP \o Zeros(2), <<0, 1>>}

\* ChatRequest: texto, idioma (None, "" or a tag), system_prompt (None or a text)
ChatRequests ==
    {Req(t, <<>>, <<>>, l, sp) :
        t \in {<<>>, <<" ", "\n">>, <<"h", "i">>},
        l \in {<<>>, <<"">>, <<"en">>},
        sp \in {<<>>, <<CUSTOM_PROMPT>>}}
VoiceRequests == {Req(<<>>, b, <<>>, <<>>, <<>>) : b \in {<<>>, SAMPLE_OGG}}
\* the form fields prompt and idioma as the client sent them: absent, empty, or a value
FormPrompts == {<<>>, << <<>> >>, <<CUSTOM_PROMPT>>}
FormIdiomas == {<<>>, <<"">>, <<"en">>}
ImageRequests ==
    {Req(<<>>, b, p, l, <<>>) : b \in {<<>>, SAMPLE_PNG}, p \in FormPrompts, l \in FormIdiomas}
DocumentRequests ==
    {Req(<<>>, b, p, l, <<>>) : b \in SampleFiles, p \in FormPrompts, l \in FormIdiomas}
ClassifyRequests == {Req(<<>>, b, <<>>, l, <<>>) : b \in SampleFiles, l \in FormIdiomas}

RequestsOf(ep) ==
    CASE ep = "chat"     -> ChatRequests
      [] ep = "voice"    -> VoiceRequests
      [] ep = "image"    -> ImageRequests
      [] ep = "document" -> DocumentRequests
      [] ep = "classify" -> ClassifyRequests

\* a parameter declared Form(default=...): the field's value, the default when
\* the field is absent or empty
FormParam(field, default, empty) ==
    IF field = <<>> \/ field[1] = empty THEN default ELSE field[1]

-----------------------------------------------------------------------------
(* The handlers, one action per stretch of code between two external calls *)

doc_vars == <<file_bytes, file_type, images, page, resultados>>
tail_vars == <<respuesta_texto, clasif, wav_bytes>>
fixed_vars == <<endpoint, req, harness_vars, workers>>
scratch_vars == <<office_run, tmp_name, fs>>

\* the parameters prompt and idioma of image, document and classify
FormPrompt ==
    FormParam(req.prompt,
              IF endpoint = "image" THEN IMAGE_DEFAULT_PROMPT ELSE DOCUMENT_DEFAULT_PROMPT,
              <<>>)
FormIdioma == FormParam(req.idioma, "es", "")

\* if not request.texto.strip()
ChatTextoVacioSinStrip(texto) == texto = <<>>
ChatTextoVacio(texto) == Strip(texto) = <<>>

\* which branch of document / classify a detected type takes
BranchZipAsOffice(ft) ==
    IF ft \in OFFICE_TYPES \cup {"zip"} THEN "office"
    ELSE IF ft = "pdf" THEN "pdf"
    ELSE IF ft \in IMAGE_TYPES THEN "image"
    ELSE "unsupported"
Branch(ft) ==
    IF ft \in OFFICE_TYPES THEN "office"
    ELSE IF ft = "pdf" THEN "pdf"
    ELSE IF ft \in IMAGE_TYPES THEN "image"
    ELSE "unsupported"

\* f"Página {i+1}: {prompt}"
PagePrompt(i, prompt) == PagePromptHead \o Str(i + 1) \o PagePromptSep \o prompt

\* the calls iteration i of the page loop issues before it waits: the one for
\* page i+1 (the loop awaits each call_llm_vision before it goes on)
PageCallsTodasJuntas(imgs, i, prompt) ==
    [k \in 1..(Len(imgs) - i) |->
        VisionCall(image_to_base64(imgs[i + k]), PagePrompt(i + k - 1, prompt))]
PageCalls(imgs, i, prompt) ==
    <<VisionCall(image_to_base64(imgs[i + 1]), PagePrompt(i, prompt))>>

\* an image analysed directly: call_llm_vision(image_to_base64(bytes), prompt)
DirectVisionCallComoPagina(image_bytes, prompt) ==
    VisionCall(image_to_base64(image_bytes), PagePrompt(0, prompt))
DirectVisionCall(image_bytes, prompt) == VisionCall(image_to_base64(image_bytes), prompt)

\* f"--- Página {i+1} ---\n{resultado}"
FragmentoBaseCero(i, resultado) == HeaderHead \o Str(i) \o HeaderTail \o resultado
Fragmento(i, resultado) == HeaderHead \o Str(i + 1) \o HeaderTail \o resultado

\* the page classify analyses: images[0]
ClassifyImageLast(imgs) == imgs[Len(imgs)]
ClassifyImage(imgs) == imgs[1]

\* f"Documento identificado como {tipo}. {descripcion}"
TextoAudio(rec) == TextoAudioHead \o rec.tipo \o TextoAudioSep \o rec.descripcion

\* raise: the request ends with this reply, nothing else is called
Raise(r) ==
    /\ reply' = r
    /\ pc' = "done"
    /\ UNCHANGED <<calls, doc_vars, tail_vars, idioma>>

\* return: the request ends with the reply built from the locals
Return(r) == Raise(r)

\* leave the handler for the next external call
Await(c, next_pc) ==
    /\ calls' = Append(calls, c)
    /\ pc' = next_pc
    /\ UNCHANGED reply

\* leave the handler for the calls cs
AwaitAll(cs, next_pc) ==
    /\ calls' = calls \o cs
    /\ pc' = next_pc
    /\ UNCHANGED reply

\* wav_bytes = await call_tts(texto, idioma)
StartTts(texto) ==
    /\ respuesta_texto' = texto
    /\ Await(TtsCall(texto, idioma), "await_tts")
    /\ UNCHANGED <<doc_vars, wav_bytes, idioma>>

ChatStart ==
    /\ endpoint = "chat" /\ pc = "start"
    /\ IF ChatTextoVacio(req.texto)
       THEN Raise(HTTPException(400, "El texto no puede estar vacío"))
       ELSE /\ idioma' = OrDefault(req.idioma, "es", "")
            /\ Await(LlmCall(req.texto, req.system_prompt), "await_llm")
            /\ UNCHANGED <<doc_vars, tail_vars>>
    /\ UNCHANGED <<rets, fixed_vars, scratch_vars>>

\* texto_usuario = stt_result.get("texto", ""); if not texto_usuario
SinTranscripcionNunca(stt_result) == FALSE
SinTranscripcion(stt_result) == stt_result.text = <<>>

\* idioma = stt_result.get("idioma", "es")
SttIdiomaSiempreEs(stt_result) == "es"
SttIdioma(stt_result) == IF stt_result.lang = <<>> THEN "es" ELSE stt_result.lang[1]

VoiceStart ==
    /\ endpoint = "voice" /\ pc = "start"
    /\ IF req.bytes = <<>>
       THEN Raise(HTTPException(400, "Archivo de audio vacío"))
       ELSE /\ Await(SttCall(req.bytes), "await_stt")
            /\ UNCHANGED <<doc_vars, tail_vars, idioma>>
    /\ UNCHANGED <<rets, fixed_vars, scratch_vars>>

SttReturn ==
    /\ endpoint = "voice" /\ pc = "await_stt"
    /\ \E ret \in SttRets :
        /\ rets' = Append(rets, ret)
        /\ IF CallFailed(ret)
           THEN Raise(FailureReply(endpoint, "stt", ret))
           ELSE IF SinTranscripcion(ret)
           THEN Raise(HTTPException(400, "No se pudo transcribir el audio"))
           ELSE /\ idioma' = SttIdioma(ret)
                /\ Await(LlmCall(ret.text, <<>>), "await_llm")
                /\ UNCHANGED <<doc_vars, tail_vars>>
    /\ UNCHANGED <<fixed_vars, scratch_vars>>

\* chat and voice: the answer of call_llm
LlmReturn ==
    /\ endpoint \in {"chat", "voice"} /\ pc = "await_llm"
    /\ \E ret \in LlmRets :
        /\ rets' = Append(rets, ret)
        /\ IF CallFailed(ret)
           THEN Raise(FailureReply(endpoint, "llm", ret))
           ELSE IF ret.text = <<>>
           THEN Raise(HTTPException(500, "LLM no generó respuesta"))
           ELSE StartTts(ret.text) /\ UNCHANGED clasif
    /\ UNCHANGED <<fixed_vars, scratch_vars>>

ImageStart ==
    /\ endpoint = "image" /\ pc = "start"
    /\ IF req.bytes = <<>>
       THEN Raise(HTTPException(400, "Archivo de imagen vacío"))
       ELSE /\ idioma' = FormIdioma
            /\ Await(DirectVisionCall(req.bytes, FormPrompt), "await_vision")
            /\ UNCHANGED <<doc_vars, tail_vars>>
    /\ UNCHANGED <<rets, fixed_vars, scratch_vars>>

\* document and classify, up to the first external call; for an office file
\* office_to_pdf has made its directory and written input<ext> into it
DocumentStart ==
    /\ endpoint \in {"document", "classify"} /\ pc = "start"
    /\ IF req.bytes = <<>>
       THEN Raise(HTTPException(400, "Archivo vacío")) /\ UNCHANGED <<tmp_name, fs>>
       ELSE LET ft == detect_file_type(req.bytes) IN
            CASE Branch(ft) = "office" ->
                    /\ file_bytes' = req.bytes /\ file_type' = ft
                    /\ idioma' = FormIdioma
                    /\ \E d \in FreeNames(fs, "dir") :
                          /\ tmp_name' = d
                          /\ fs' = fs \cup {Path("dir", d), Path("input", d)}
                    /\ Await(OfficeCall(req.bytes, ft), "await_office")
                    /\ UNCHANGED <<images, page, resultados, tail_vars>>
              [] Branch(ft) = "pdf" ->
                    /\ file_bytes' = req.bytes /\ file_type' = ft
                    /\ idioma' = FormIdioma
                    /\ Await(RasterCall(req.bytes), "await_raster")
                    /\ UNCHANGED <<images, page, resultados, tail_vars, tmp_name, fs>>
              [] Branch(ft) = "image" ->
                    /\ file_bytes' = req.bytes /\ file_type' = ft
                    /\ idioma' = FormIdioma
                    /\ Await(DirectVisionCall(req.bytes,
                                               IF endpoint = "document" THEN FormPrompt
                                               ELSE PROMPT_CLASIFICACION),
                             "await_vision")
                    /\ UNCHANGED <<images, page, resultados, tail_vars, tmp_name, fs>>
              [] OTHER ->
                    /\ Raise(HTTPException(400,
                        "Tipo de archivo no soportado. Use PDF, Office (DOCX, XLSX, PPTX) o imágenes"))
                    /\ UNCHANGED <<tmp_name, fs>>
    /\ UNCHANGED <<rets, office_run, fixed_vars>>

\* office_to_pdf returned or raised; either way its directory is gone
OfficeReturn ==
    /\ endpoint \in {"document", "classify"} /\ pc = "await_office"
    /\ \E run \in ConverterRuns :
        LET ret == office_to_pdf(run)
            left == IF run.pdf = <<>> THEN {} ELSE {Path("pdf", tmp_name)}
        IN  /\ rets' = Append(rets, ret)
            /\ office_run' = run
            /\ fs' = CleanupDir(fs \cup left, tmp_name)
            /\ IF CallFailed(ret)
               THEN Raise(FailureReply(endpoint, "office", ret))
               ELSE /\ file_bytes' = ret.bytes /\ file_type' = "pdf"
                    /\ Await(RasterCall(ret.bytes), "await_raster")
                    /\ UNCHANGED <<images, page, resultados, tail_vars, idioma>>
    /\ UNCHANGED <<tmp_name, fixed_vars>>

\* pdf_to_images returned or raised
RasterReturn ==
    /\ endpoint \in {"document", "classify"} /\ pc = "await_raster"
    /\ \E ret \in RasterRets :
        /\ rets' = Append(rets, ret)
        /\ IF CallFailed(ret)
           THEN Raise(FailureReply(endpoint, "raster", ret))
           ELSE IF ret.n = 0
           THEN Raise(HTTPException(400, "No se pudieron extraer páginas del PDF"))
           ELSE /\ images' = pdf_to_images(ret.n)
                /\ page' = 0
                /\ AwaitAll(IF endpoint = "document"
                            THEN PageCalls(images', 0, FormPrompt)
                            ELSE <<VisionCall(image_to_base64(ClassifyImage(images')),
                                              PROMPT_CLASIFICACION)>>,
                            "await_vision")
                /\ UNCHANGED <<file_bytes, file_type, resultados, tail_vars, idioma>>
    /\ UNCHANGED <<fixed_vars, scratch_vars>>

\* image, and document on a direct image: the answer of call_llm_vision
ImageVisionReturn ==
    /\ pc = "await_vision"
    /\ endpoint = "image" \/ (endpoint = "document" /\ file_type \in IMAGE_TYPES)
    /\ \E ret \in VisionRets :
        /\ rets' = Append(rets, ret)
        /\ IF CallFailed(ret)
           THEN Raise(FailureReply(endpoint, "vision", ret))
           ELSE IF ret.text = <<>>
           THEN Raise(HTTPException(500, "LLM Vision no generó respuesta"))
           ELSE StartTts(ret.text) /\ UNCHANGED clasif
    /\ UNCHANGED <<fixed_vars, scratch_vars>>

\* document on a PDF: the answer for page i of the loop
DocumentPageReturn ==
    /\ pc = "await_vision" /\ endpoint = "document" /\ file_type = "pdf"
    /\ \E ret \in VisionRets :
        /\ rets' = Append(rets, ret)
        /\ IF CallFailed(ret)
           THEN Raise(FailureReply(endpoint, "vision", ret))
           ELSE LET res == Append(resultados, Fragmento(page, ret.text)) IN
                IF page + 1 < Len(images)
                THEN /\ resultados' = res
                     /\ page' = page + 1
                     /\ AwaitAll(PageCalls(images, page + 1, FormPrompt), "await_vision")
                     /\ UNCHANGED <<file_bytes, file_type, images, tail_vars, idioma>>
                ELSE LET texto == Join(<<"\n", "\n">>, res) IN
                     IF texto = <<>>
                     THEN Raise(HTTPException(500, "LLM Vision no generó respuesta"))
                     ELSE /\ resultados' = res
                          /\ respuesta_texto' = texto
                          /\ Await(TtsCall(texto, idioma), "await_tts")
                          /\ UNCHANGED <<file_bytes, file_type, images, page, clasif,
                                         wav_bytes, idioma>>
    /\ UNCHANGED <<fixed_vars, scratch_vars>>

\* classify: the answer of the one call_llm_vision
ClassifyVisionReturn ==
    /\ pc = "await_vision" /\ endpoint = "classify"
    /\ \E ret \in VisionRets :
        /\ rets' = Append(rets, ret)
        /\ IF CallFailed(ret)
           THEN Raise(FailureReply(endpoint, "vision", ret))
           ELSE IF ret.text = <<>>
           THEN Raise(HTTPException(500, "LLM Vision no generó respuesta"))
           ELSE /\ clasif' = parse_clasificacion(ret.text)
                /\ StartTts(TextoAudio(clasif'))
    /\ UNCHANGED <<fixed_vars, scratch_vars>>

\* every endpoint: the answer of call_tts; wav_to_ogg_base64 then makes its
\* temporary .wav (delete=False), writes the body into it and runs ffmpeg
TtsReturn ==
    /\ pc = "await_tts"
    /\ \E ret \in TtsRets :
        /\ rets' = Append(rets, ret)
        /\ IF CallFailed(ret)
           THEN Raise(FailureReply(endpoint, "tts", ret)) /\ UNCHANGED <<tmp_name, fs>>
           ELSE \E n \in FreeNames(fs, "wav"), written \in BOOLEAN :
                /\ wav_bytes' = ret.bytes
                /\ tmp_name' = n
                /\ fs' = fs \cup {Path("wav", n)}
                /\ IF written
                   THEN Await(FfmpegCall(ret.bytes), "await_ffmpeg")
                   ELSE \* wav_file.write raised, before the try block is entered
                        /\ reply' = HTTPException(500, StageLabel(endpoint))
                        /\ pc' = "done"
                        /\ UNCHANGED calls
                /\ UNCHANGED <<doc_vars, respuesta_texto, clasif, idioma>>
    /\ UNCHANGED <<office_run, fixed_vars>>

\* every endpoint: ffmpeg ended, the finally clause ran, the reply is built
FfmpegReturn ==
    /\ pc = "await_ffmpeg"
    /\ \E ret \in FfmpegRets :
        /\ rets' = Append(rets, ret)
        /\ fs' = UnlinkWavOgg(AfterFfmpeg(fs, Path("wav", tmp_name), ret),
                              Path("wav", tmp_name))
        /\ IF CallFailed(ret)
           THEN Raise(FailureReply(endpoint, "ffmpeg", ret))
           ELSE LET audio_b64 == b64encode(ret.bytes) IN
                Return(IF endpoint = "classify"
                       THEN ClassifyResponse(clasif, respuesta_texto, audio_b64, idioma)
                       ELSE ChatResponse(respuesta_texto, audio_b64, idioma))
    /\ UNCHANGED <<office_run, tmp_name, fixed_vars>>

\* no worker process is inside a scratch function
IdleWorker == [pc |-> "idle", op |-> "none", name |-> 0]
IdleWorkers == workers = [p \in 1..MaxWorkers |-> IdleWorker]

IdleHarness ==
    /\ h_pc = "idle" /\ h_in = <<>> /\ h_out = NoRecord /\ h_re = NoRecord /\ h_tag = ""

Init ==
    /\ endpoint \in Endpoints
    /\ req \in RequestsOf(endpoint)
    /\ pc = "start"
    /\ file_bytes = <<>> /\ file_type = "" /\ idioma = ""
    /\ images = <<>> /\ page = 0 /\ resultados = <<>>
    /\ respuesta_texto = <<>> /\ clasif = NoRecord /\ wav_bytes = <<>>
    /\ calls = <<>> /\ rets = <<>> /\ reply = NoReply
    /\ office_run = NoRun /\ tmp_name = 0 /\ fs = {}
    /\ IdleHarness /\ IdleWorkers

Next ==
    \/ ChatStart \/ VoiceStart \/ ImageStart \/ DocumentStart
    \/ SttReturn \/ LlmReturn \/ OfficeReturn \/ RasterReturn
    \/ ImageVisionReturn \/ DocumentPageReturn \/ ClassifyVisionReturn
    \/ TtsReturn \/ FfmpegReturn

Spec == Init /\ [][Next]_vars

-----------------------------------------------------------------------------
(* parse_clasificacion and detect_file_type on their own *)

IdlePipeline ==
    /\ endpoint = "none" /\ req = Req(<<>>, <<>>, <<>>, <<>>, <<>>) /\ pc = "idle"
    /\ file_bytes = <<>> /\ file_type = "" /\ idioma = ""
    /\ images = <<>> /\ page = 0 /\ resultados = <<>>
    /\ respuesta_texto = <<>> /\ clasif = NoRecord /\ wav_bytes = <<>>
    /\ calls = <<>> /\ rets = <<>> /\ reply = NoReply
    /\ office_run = NoRun /\ tmp_name = 0

InitParse ==
    /\ IdlePipeline /\ fs = {} /\ IdleWorkers
    /\ h_pc = "input" /\ h_in \in ParseInputs
    /\ h_out = NoRecord /\ h_re = NoRecord /\ h_tag = ""

\* tipo, confianza, descripcion = parse_clasificacion(respuesta_raw)
DoParse ==
    /\ h_pc = "input"
    /\ h_out' = parse_clasificacion(h_in)
    /\ h_pc' = "parsed"
    /\ UNCHANGED <<h_in, h_re, h_tag, pipe_vars, fs, workers>>

\* the record rendered as text and parsed again
DoReparse ==
    /\ h_pc = "parsed"
    /\ h_re' = parse_clasificacion(Render(h_out))
    /\ h_pc' = "reparsed"
    /\ UNCHANGED <<h_in, h_out, h_tag, pipe_vars, fs, workers>>

NextParse == DoParse \/ DoReparse

SpecParse == InitParse /\ [][NextParse]_vars

InitDetect ==
    /\ IdlePipeline /\ fs = {} /\ IdleWorkers
    /\ h_pc = "input" /\ h_in \in DetectInputs
    /\ h_out = NoRecord /\ h_re = NoRecord /\ h_tag = ""

\* file_type = detect_file_type(file_bytes)
DoDetect ==
    /\ h_pc = "input"
    /\ h_tag' = detect_file_type(h_in)
    /\ h_pc' = "detected"
    /\ UNCHANGED <<h_in, h_out, h_re, pipe_vars, fs, workers>>

NextDetect == DoDetect

SpecDetect == InitDetect /\ [][NextDetect]_vars

-----------------------------------------------------------------------------
(* wav_to_ogg_base64 and office_to_pdf, statement by statement, in worker     *)
(* processes that share the temp directory                                 *)

Procs == 1..MaxWorkers

\* worker p moves to position next_pc
Goto(p, next_pc) == workers' = [workers EXCEPT ![p].pc = next_pc]

\* NamedTemporaryFile(suffix=".wav", delete=False) and wav_file.write(wav_bytes)
MakeWav(p) ==
    /\ workers[p].pc = "idle"
    /\ \E n \in FreeNames(fs, "wav"), written \in BOOLEAN :
          /\ fs' = fs \cup {Path("wav", n)}
          /\ workers' = [workers EXCEPT ![p] =
                [pc |-> IF written THEN "ffmpeg" ELSE "raised",
                 op |-> "wav_to_ogg_base64", name |-> n]]
    /\ UNCHANGED <<pipe_vars, harness_vars>>

\* subprocess.run(["ffmpeg", "-y", "-i", wav_path, ..., ogg_path], check=True)
RunFfmpeg(p) ==
    /\ workers[p].pc = "ffmpeg"
    /\ \E ret \in {Ret("ok", <<>>, SAMPLE_OGG, <<>>, 0), Failure("nonzero_exit")} :
          /\ fs' = AfterFfmpeg(fs, Path("wav", workers[p].name), ret)
          /\ Goto(p, IF CallFailed(ret) THEN "unlink_wav" ELSE "read")
    /\ UNCHANGED <<pipe_vars, harness_vars>>

\* with open(ogg_path, "rb") as f: ogg_bytes = f.read()
ReadOgg(p) ==
    /\ workers[p].pc = "read"
    /\ Goto(p, "unlink_wav")
    /\ UNCHANGED <<fs, pipe_vars, harness_vars>>

\* finally: if os.path.exists(wav_path): os.unlink(wav_path)
UnlinkWav(p) ==
    /\ workers[p].pc = "unlink_wav"
    /\ fs' = fs \ {Path("wav", workers[p].name)}
    /\ Goto(p, "unlink_ogg")
    /\ UNCHANGED <<pipe_vars, harness_vars>>

\* finally: if os.path.exists(ogg_path): os.unlink(ogg_path)
UnlinkOgg(p) ==
    /\ workers[p].pc = "unlink_ogg"
    /\ fs' = fs \ {OggPath(Path("wav", workers[p].name))}
    /\ Goto(p, "returned")
    /\ UNCHANGED <<pipe_vars, harness_vars>>

\* with tempfile.TemporaryDirectory() as tmpdir, and input<ext> written
MakeDir(p) ==
    /\ workers[p].pc = "idle"
    /\ \E d \in FreeNames(fs, "dir") :
          /\ fs' = fs \cup {Path("dir", d), Path("input", d)}
          /\ workers' = [workers EXCEPT ![p] =
                [pc |-> "convert", op |-> "office_to_pdf", name |-> d]]
    /\ UNCHANGED <<pipe_vars, harness_vars>>

\* subprocess.run(["libreoffice", ..., "--outdir", tmpdir, input_path], timeout=120)
Convert(p) ==
    /\ workers[p].pc = "convert"
    /\ \E run \in ConverterRuns :
          fs' = fs \cup (IF run.pdf = <<>> THEN {} ELSE {Path("pdf", workers[p].name)})
    /\ Goto(p, "cleanup")
    /\ UNCHANGED <<pipe_vars, harness_vars>>

\* the with block is left, by return or by an exception
RemoveDir(p) ==
    /\ workers[p].pc = "cleanup"
    /\ fs' = CleanupDir(fs, workers[p].name)
    /\ Goto(p, "returned")
    /\ UNCHANGED <<pipe_vars, harness_vars>>

\* the worker's request ended; it serves the next one
NextRequest(p) ==
    /\ workers[p].pc \in {"returned", "raised"}
    /\ workers' = [workers EXCEPT ![p] = IdleWorker]
    /\ UNCHANGED <<fs, pipe_vars, harness_vars>>

InitConc == IdlePipeline /\ IdleHarness /\ fs = {} /\ IdleWorkers

NextConc ==
    \E p \in Procs :
        \/ MakeWav(p) \/ RunFfmpeg(p) \/ ReadOgg(p) \/ UnlinkWav(p) \/ UnlinkOgg(p)
        \/ MakeDir(p) \/ Convert(p) \/ RemoveDir(p) \/ NextRequest(p)

SpecConc == InitConc /\ [][NextConc]_vars

-----------------------------------------------------------------------------
(* Properties *)

\* indices of the calls to a collaborator, in the order they were issued
CallsTo(svc) ==
    SelectSeq([k \in 1..Len(calls) |-> k], LAMBDA k : calls[k].svc = svc)

WhitespaceOnly(t) == \A k \in 1..Len(t) : t[k] \in {" ", "\n", "\t", "\r"}

\* the request's input is empty: blank text for /chat, a zero-length upload otherwise
InputVacio ==
    IF endpoint = "chat" THEN WhitespaceOnly(req.texto)
    ELSE endpoint \in Endpoints /\ req.bytes = <<>>

\* C1: a request with an empty input (empty or whitespace-only text for /chat,
\* zero-length upload for /voice, /image, /document, /classify) never calls a
\* collaborator and ends with a 400 reply.
C1_EmptyInputFailsFast ==
    InputVacio =>
        /\ calls = <<>>
        /\ pc \in {"start", "done"}
        /\ pc = "done" => reply.status = 400

C1_Witness ==
    /\ endpoint = "chat" /\ req.texto # <<>> /\ InputVacio
    /\ pc = "done" /\ reply.status = 400 /\ calls = <<>>

\* C2: in /document and /classify a non-empty upload whose detected format is
\* neither pdf, nor an office format, nor an image (zip or unknown) ends with a
\* 400 reply and no collaborator call.
C2_UnsupportedFormatFailsFast ==
    ( /\ endpoint \in {"document", "classify"}
      /\ req.bytes # <<>>
      /\ detect_file_type(req.bytes) \notin
            {"pdf", "docx", "doc", "xlsx", "xls", "pptx", "ppt",
             "png", "jpeg", "gif", "webp"} )
    =>  /\ detect_file_type(req.bytes) \in {"zip", "unknown"}
        /\ calls = <<>>
        /\ pc \in {"start", "done"}
        /\ pc = "done" => reply.status = 400

C2_Witness ==
    /\ endpoint = "classify" /\ detect_file_type(req.bytes) = "zip"
    /\ pc = "done" /\ reply.status = 400 /\ calls = <<>>

\* C3: once a collaborator call of the request has failed, the request has ended
\* with an error reply and that call is the last one the request issued; no call
\* is issued twice.
C3_FailureAbortsRequest ==
    /\ \A k \in 1..Len(rets) :
          rets[k].status # "ok" =>
              /\ k = Len(calls)
              /\ pc = "done"
              /\ reply.status = 500
    /\ \A j, k \in 1..Len(calls) : j # k => calls[j] # calls[k]
    /\ Len(rets) \in {Len(calls), Len(calls) - 1}

C3_Witness ==
    /\ endpoint = "document" /\ Len(images) = 3
    /\ Len(CallsTo("vision")) = 2
    /\ rets[Len(rets)].status = "http_error"
    /\ pc = "done" /\ reply.status = 500

\* an inference call of the request that returned an empty string
EmptyAnswer(k) ==
    /\ k <= Len(rets)
    /\ calls[k].svc \in {"llm", "vision"}
    /\ rets[k].status = "ok"
    /\ rets[k].text = <<>>

\* C4: if the text or vision model returns an empty string for any call of the
\* request, a page of a multi-page document included, the request fails with a
\* 500 reply and TTS is never called.
C4_EmptyAnswerIsTerminal ==
    (\E k \in 1..Len(calls) : EmptyAnswer(k)) =>
        /\ CallsTo("tts") = <<>>
        /\ pc = "done" => reply.status = 500

\* the text /document is to return for a PDF whose pages got the answers ans
RECURSIVE PaginasEnOrden(_, _)
PaginasEnOrden(ans, i) ==
    IF i > Len(ans) THEN <<>>
    ELSE HeaderHead \o Str(i) \o HeaderTail \o ans[i]
         \o (IF i < Len(ans) THEN <<"\n", "\n">> ELSE <<>>)
         \o PaginasEnOrden(ans, i + 1)

\* C5: on success for a PDF of n >= 1 pages, /document made exactly n vision
\* calls, the i-th on the image of page i, and the text of the reply is the n
\* fragments '--- Página i ---' + answer i, in ascending page order.
C5_PagesInOrder ==
    (endpoint = "document" /\ file_type = "pdf" /\ pc = "done" /\ reply.status = 200) =>
        LET v == CallsTo("vision")
            n == rets[CallsTo("raster")[1]].n
        IN  /\ n >= 1
            /\ Len(v) = n
            /\ \A i \in 1..n : calls[v[i]].img = b64encode(MAGIC_PNG \o <<i>>)
            /\ \A i \in 1..(n - 1) : v[i + 1] = v[i] + 1
            /\ reply.texto = PaginasEnOrden([i \in 1..n |-> rets[v[i]].text], 1)

C5_Witness ==
    /\ endpoint = "document" /\ file_type = "pdf" /\ pc = "done" /\ reply.status = 200
    /\ Len(images) = 3
    /\ rets[CallsTo("vision")[1]].text = <<"P">>
    /\ rets[CallsTo("vision")[2]].text = ANS_CLASIF_OK
    /\ rets[CallsTo("vision")[3]].text = ANS_CLASIF_ODD

\* C6: /classify on a PDF (or converted office file) of any number of pages makes
\* exactly one vision call once the pages are there (none before), on the image
\* of page 1 with the classification prompt; TTS is called only after that call
\* returned a non-empty answer, with the sentence built from the parsed answer.
C6_ClassifyFirstPageOnly ==
    (endpoint = "classify" /\ file_type = "pdf") =>
        LET v == CallsTo("vision") IN
        /\ Len(v) <= 1
        /\ \A i \in 1..Len(v) :
              /\ calls[v[i]].img = b64encode(MAGIC_PNG \o <<1>>)
              /\ calls[v[i]].text = PROMPT_CLASIFICACION
        /\ \A k \in 1..Len(calls) :
              calls[k].svc = "tts" =>
                  /\ Len(v) = 1 /\ v[1] < k
                  /\ rets[v[1]].status = "ok" /\ rets[v[1]].text # <<>>
                  /\ clasif = parse_clasificacion(rets[v[1]].text)
                  /\ calls[k].text =
                        TextoAudioHead \o clasif.tipo \o TextoAudioSep \o clasif.descripcion
        /\ images # <<>> => Len(v) = 1
        /\ reply.status = 200 => images # <<>> /\ CallsTo("tts") # <<>>

C6_Witness ==
    /\ endpoint = "classify" /\ file_type = "pdf" /\ Len(images) = 3
    /\ pc = "done" /\ reply.status = 200
    /\ Len(CallsTo("vision")) = 1

\* the 18 document types, as sets of characters in order
EnumeracionTipos == {TIPOS_DOCUMENTO[k] : k \in 1..18}

\* the value of the last TIPO line of a text, as extracted before validation
TipoExtraido(texto) ==
    ParseLines([tipo |-> T_Otro, confianza |-> CONF_BAJA, descripcion |-> texto],
               Split(Strip(texto), "\n")).tipo

\* C7: the type parse_clasificacion returns is one of the 18 of TIPOS_DOCUMENTO;
\* an extracted value that is not exactly a member is replaced by 'Otro'.
C7_TipoInEnumeration ==
    h_pc \in {"parsed", "reparsed"} =>
        /\ Len(TIPOS_DOCUMENTO) = 18
        /\ h_out.tipo \in EnumeracionTipos
        /\ TipoExtraido(h_in) \notin EnumeracionTipos => h_out.tipo = T_Otro
        /\ TipoExtraido(h_in) \in EnumeracionTipos => h_out.tipo = TipoExtraido(h_in)

C7_Witness ==
    /\ h_pc = "parsed" /\ h_in = L_TipoWrongCase
    /\ TipoExtraido(h_in) = Lower(T_Factura)
    /\ h_out.tipo = T_Otro

\* C8: the confidence parse_clasificacion returns is one of alta, media, baja.
C8_ConfianzaInBands ==
    h_pc \in {"parsed", "reparsed"} => h_out.confianza \in {CONF_ALTA, CONF_MEDIA, CONF_BAJA}

\* C9 (as claimed): parsing the rendered text of a parsed record yields the
\* same record, for every input.
C9_IdempotentAlways ==
    h_pc = "reparsed" => h_re = h_out

\* a description that is one line without outer whitespace
UnaLinea(d) == (\A k \in 1..Len(d) : d[k] # "\n") /\ Strip(d) = d

\* C9 (amended): parsing the rendered text of a parsed record yields the same
\* record whenever the description is a single line without leading or trailing
\* whitespace.
C9_IdempotentOnSingleLine ==
    (h_pc = "reparsed" /\ UnaLinea(h_out.descripcion)) => h_re = h_out

C9_Witness ==
    /\ h_pc = "reparsed"
    /\ h_in = L_TipoFactura \o <<"\n">> \o L_ConfOther \o <<"\n">> \o L_DescAcento
    /\ h_out.descripcion = <<"a", ":", "b">>
    /\ h_re = h_out

\* marker m lies entirely within the first ScanWindow bytes of b
MarkerWithin(b, m) ==
    \E k \in 0..(ScanWindow - Len(m)) :
        /\ k + Len(m) <= Len(b)
        /\ \A j \in 1..Len(m) : b[k + j] = m[j]

StartsWithZip(b) == Len(b) >= 4 /\ b[1] = 80 /\ b[2] = 75 /\ b[3] = 3 /\ b[4] = 4

\* C10 (as claimed): a PK\x03\x04 buffer with 'xl/' in its first 2000 bytes is
\* xlsx; with none of 'word/', 'xl/', 'ppt/' there it is zip.
C10_XlMeansXlsx ==
    (h_pc = "detected" /\ StartsWithZip(h_in)) =>
        /\ MarkerWithin(h_in, MARK_XL) => h_tag = "xlsx"
        /\ ( ~MarkerWithin(h_in, MARK_WORD) /\ ~MarkerWithin(h_in, MARK_XL)
             /\ ~MarkerWithin(h_in, MARK_PPT) ) => h_tag = "zip"

\* C10 (amended): a PK\x03\x04 buffer with 'xl/' but no 'word/' in its first
\* 2000 bytes is xlsx; with none of the three markers there it is zip.
C10_XlWithoutWordMeansXlsx ==
    (h_pc = "detected" /\ StartsWithZip(h_in)) =>
        /\ (MarkerWithin(h_in, MARK_XL) /\ ~MarkerWithin(h_in, MARK_WORD))
              => h_tag = "xlsx"
        /\ ( ~MarkerWithin(h_in, MARK_WORD) /\ ~MarkerWithin(h_in, MARK_XL)
             /\ ~MarkerWithin(h_in, MARK_PPT) ) => h_tag = "zip"

C10_Witness ==
    /\ h_pc = "detected" /\ StartsWithZip(h_in)
    /\ Len(h_in) = ScanWindow
    /\ SubSeq(h_in, ScanWindow - 2, ScanWindow) = MARK_XL
    /\ h_tag = "xlsx"

-----------------------------------------------------------------------------
(* detect_file_type against its priority table *)

\* the bytes sig stand in b from 0-based offset off on
BytesAt(b, off, sig) ==
    /\ Len(b) >= off + Len(sig)
    /\ \A j \in 1..Len(sig) : b[off + j] = sig[j]

\* the table of the claim: signature at offset 0, a second one further on
\* (none when off2 = 0), and the tag; "PK" stands for the marker search
PriorityTable ==
    << [sig |-> <<37, 80, 68, 70>>, off2 |-> 0, sig2 |-> <<>>, tag |-> "pdf"],
       [sig |-> <<137, 80, 78, 71, 13, 10, 26, 10>>, off2 |-> 0, sig2 |-> <<>>, tag |-> "png"],
       [sig |-> <<255, 216>>, off2 |-> 0, sig2 |-> <<>>, tag |-> "jpeg"],
       [sig |-> <<71, 73, 70, 56>>, off2 |-> 0, sig2 |-> <<>>, tag |-> "gif"],
       [sig |-> <<82, 73, 70, 70>>, off2 |-> 8, sig2 |-> <<87, 69, 66, 80>>, tag |-> "webp"],
       [sig |-> <<80, 75, 3, 4>>, off2 |-> 0, sig2 |-> <<>>, tag |-> "PK"],
       [sig |-> <<208, 207, 17, 224, 161, 177, 26, 225>>, off2 |-> 0, sig2 |-> <<>>, tag |-> "doc"] >>

EntryMatches(b, e) == BytesAt(b, 0, e.sig) /\ BytesAt(b, e.off2, e.sig2)

\* the tag of the first entry of the table that matches b
ExpectedTag(b) ==
    LET hits == {k \in 1..Len(PriorityTable) : EntryMatches(b, PriorityTable[k])} IN
    IF hits = {} THEN "unknown"
    ELSE LET first == CHOOSE k \in hits : \A j \in hits : k <= j IN
         IF PriorityTable[first].tag # "PK" THEN PriorityTable[first].tag
         ELSE IF MarkerWithin(b, MARK_WORD) THEN "docx"
         ELSE IF MarkerWithin(b, MARK_XL) THEN "xlsx"
         ELSE IF MarkerWithin(b, MARK_PPT) THEN "pptx"
         ELSE "zip"

FormatTags ==
    {"pdf", "png", "jpeg", "gif", "webp", "docx", "doc", "xlsx", "xls", "pptx", "ppt",
     "zip", "unknown"}

\* C11: for every buffer, the empty one and those shorter than a signature
\* included, detect_file_type returns one tag of the closed set, the tag of the
\* first matching entry of the priority table; RIFF at 0 without WEBP at 8 is
\* never webp.
C11_DetectFollowsPriorityTable ==
    /\ h_pc = "input" => h_tag = ""
    /\ h_pc = "detected" =>
          /\ h_tag \in FormatTags
          /\ h_tag = ExpectedTag(h_in)
          /\ (BytesAt(h_in, 0, <<82, 73, 70, 70>>) /\ ~BytesAt(h_in, 8, <<87, 69, 66, 80>>))
                => h_tag # "webp"

C11_Witness ==
    /\ h_pc = "detected"
    /\ BytesAt(h_in, 0, <<82, 73, 70, 70>>) /\ Len(h_in) = 12
    /\ ~BytesAt(h_in, 8, <<87, 69, 66, 80>>)
    /\ h_tag = "unknown"

-----------------------------------------------------------------------------
(* The shape of a successful reply *)

-----------------------------------------------------------------------------
(* Office conversion and scratch files *)

\* the request's converter run ended in one of the three failures
ConversionFailed ==
    \/ office_run.returncode # 0
    \/ office_run.seconds > 120
    \/ office_run.pdf = <<>>

\* C13: office_to_pdf fails when the converter exits non-zero, runs past the
\* 120-second timeout, or exits zero and leaves no PDF: the /document or
\* /classify request then ends with a 500 and no rasterizer, vision or TTS call.
\* In every other case the bytes of the produced PDF become the request's
\* file, of type pdf, and go to the rasterizer.
C13_OfficeConversionOutcomes ==
    office_run # NoRun =>
        /\ endpoint \in {"document", "classify"}
        /\ calls[1].svc = "office"
        /\ ConversionFailed =>
              /\ rets[1].status # "ok"
              /\ pc = "done" /\ reply.status = 500
              /\ reply.detail = StageLabel(endpoint)
              /\ Len(calls) = 1
              /\ CallsTo("raster") = <<>> /\ CallsTo("vision") = <<>> /\ CallsTo("tts") = <<>>
        /\ ~ConversionFailed =>
              /\ rets[1].status = "ok" /\ rets[1].bytes = office_run.pdf[1]
              /\ file_type = "pdf" /\ file_bytes = office_run.pdf[1]
              /\ Len(calls) >= 2
              /\ calls[2].svc = "raster" /\ calls[2].bytes = office_run.pdf[1]

C13_Witness ==
    /\ endpoint = "classify" /\ office_run # NoRun
    /\ office_run.returncode = 0 /\ office_run.seconds <= 120 /\ office_run.pdf = <<>>
    /\ pc = "done" /\ reply.status = 500 /\ Len(calls) = 1

\* C18: no scratch file or directory outlives the function that made it: the
\* .wav and .ogg of wav_to_ogg_base64 and the directory of office_to_pdf are
\* gone on every exit path, so nothing is left once the request has ended.
C18_NoScratchLeftBehind ==
    /\ pc = "done" => fs = {}
    /\ pc \notin {"await_office", "await_ffmpeg", "done"} => fs = {}

-----------------------------------------------------------------------------
(* How failures reach the client *)

\* the request ended on a validation failure: empty input, unsupported format,
\* or a PDF that rasterized to zero pages
UnsupportedFormat ==
    /\ endpoint \in {"document", "classify"} /\ req.bytes # <<>>
    /\ detect_file_type(req.bytes) \in {"zip", "unknown"}
ZeroPages ==
    /\ rets # <<>> /\ Len(rets) = Len(calls)
    /\ calls[Len(calls)].svc = "raster"
    /\ rets[Len(rets)].status = "ok" /\ rets[Len(rets)].n = 0
ValidationDetails ==
    {"El texto no puede estar vacío", "Archivo de audio vacío", "Archivo de imagen vacío",
     "Archivo vacío", "No se pudieron extraer páginas del PDF",
     "Tipo de archivo no soportado. Use PDF, Office (DOCX, XLSX, PPTX) o imágenes"}
ValidationIs400 ==
    /\ (InputVacio \/ UnsupportedFormat \/ ZeroPages) =>
          reply.status = 400 /\ reply.detail \in ValidationDetails
    /\ ZeroPages => reply.detail = "No se pudieron extraer páginas del PDF"

\* the request's last call raised
LastCallRaised ==
    /\ rets # <<>> /\ Len(rets) = Len(calls)
    /\ rets[Len(rets)].status # "ok"

\* C14 (as claimed): a validation failure reaches the client as a 400 with its
\* own detail; every other exception raised inside a stage reaches it as a 500
\* that carries the endpoint's stage label.
C14_OtherExceptionsCarryStageLabel ==
    pc = "done" =>
        /\ ValidationIs400
        /\ LastCallRaised =>
              reply.status = 500 /\ reply.detail = StageLabel(endpoint)

\* C14 (amended): a validation failure reaches the client as a 400 with its
\* own detail; an exception other than an HTTPException raised inside a stage
\* reaches it as a 500 that carries the endpoint's stage label; the
\* HTTPException that call_stt, call_llm, call_llm_vision and call_tts raise on
\* a non-200 answer passes through as a 500 with the detail of that call.
C14_OnlyNonHttpExceptionsAreWrapped ==
    pc = "done" =>
        /\ ValidationIs400
        /\ (LastCallRaised /\ rets[Len(rets)].status # "http_error") =>
              reply.status = 500 /\ reply.detail = StageLabel(endpoint)
        /\ (LastCallRaised /\ rets[Len(rets)].status = "http_error") =>
              /\ reply.status = 500
              /\ reply.detail = HttpErrorLabel(calls[Len(calls)].svc)
              /\ reply.detail # StageLabel(endpoint)

C14_Witness ==
    /\ endpoint = "document" /\ pc = "done"
    /\ Len(calls) = 2 /\ calls[1].svc = "office" /\ ZeroPages
    /\ reply.status = 400

-----------------------------------------------------------------------------
(* Direct images *)

\* the request is /image, or /document on an upload detected as an image
DirectImage ==
    \/ endpoint = "image" /\ req.bytes # <<>>
    \/ endpoint = "document" /\ detect_file_type(req.bytes) \in {"png", "jpeg", "gif", "webp"}

\* the prompt of the request: the field as sent, the endpoint's default when
\* the field was absent or empty
SuppliedPrompt ==
    IF req.prompt # <<>> /\ req.prompt[1] # <<>> THEN req.prompt[1]
    ELSE IF endpoint = "image" THEN IMAGE_DEFAULT_PROMPT
    ELSE DOCUMENT_DEFAULT_PROMPT

\* C15: for /image and for a direct image in /document the vision model is
\* called exactly once, on the upload, with the request's prompt unchanged (no
\* 'Página N: ' prefix), and the text that goes to TTS and into the reply is
\* its answer unchanged (no '--- Página N ---' header).
C15_DirectImageVerbatim ==
    (DirectImage /\ pc # "start") =>
        LET v == CallsTo("vision") IN
        /\ Len(v) = 1 /\ v[1] = 1
        /\ calls[1].text = SuppliedPrompt
        /\ ~StartsWith(calls[1].text, PagePromptHead)
        /\ calls[1].img = b64encode(req.bytes)
        /\ \A k \in 1..Len(calls) : calls[k].svc = "tts" => calls[k].text = rets[1].text
        /\ reply.status = 200 =>
              /\ reply.texto = rets[1].text
              /\ ~StartsWith(reply.texto, HeaderHead)

C15_Witness ==
    /\ endpoint = "document" /\ DirectImage
    /\ req.prompt = <<CUSTOM_PROMPT>>
    /\ pc = "done" /\ reply.status = 200
    /\ reply.texto = ANS_CLASIF_OK

-----------------------------------------------------------------------------
(* /voice *)

\* the stages of /voice, in the order the claim gives them
VoiceStages == <<"stt", "llm", "tts", "ffmpeg">>

\* the language STT reported for the request, 'es' when it reported none
IdiomaDeStt == IF rets[1].lang = <<>> THEN "es" ELSE rets[1].lang[1]

\* C16: in /voice the calls are STT, LLM, TTS, ffmpeg in that order, each
\* issued only after the one before returned successfully; the language given
\* to TTS and returned in the reply is the one STT reported for the request,
\* 'es' only when STT reported none.
C16_VoiceStagesInOrder ==
    endpoint = "voice" =>
        /\ Len(calls) <= 4
        /\ \A k \in 1..Len(calls) :
              /\ calls[k].svc = VoiceStages[k]
              /\ k > 1 => (Len(rets) >= k - 1 /\ rets[k - 1].status = "ok")
        /\ Len(calls) >= 3 => calls[3].lang = <<IdiomaDeStt>>
        /\ reply.status = 200 =>
              /\ Len(calls) = 4 /\ Len(rets) = 4
              /\ reply.idioma = IdiomaDeStt

C16_Witness ==
    /\ endpoint = "voice" /\ pc = "done" /\ reply.status = 200
    /\ rets[1].lang = <<"en">> /\ calls[3].lang = <<"en">> /\ reply.idioma = "en"

\* C20: in /voice, when STT succeeds with an empty transcription the request
\* ends with a 400 and calls neither the LLM nor TTS nor ffmpeg; the LLM is
\* called only with a non-empty transcription, the one STT returned.
C20_NoTranscriptionIs400 ==
    endpoint = "voice" =>
        /\ (rets # <<>> /\ rets[1].status = "ok" /\ rets[1].text = <<>>) =>
              /\ pc = "done" /\ reply.status = 400
              /\ reply.detail = "No se pudo transcribir el audio"
              /\ Len(calls) = 1
              /\ CallsTo("llm") = <<>> /\ CallsTo("tts") = <<>> /\ CallsTo("ffmpeg") = <<>>
        /\ \A k \in 1..Len(calls) :
              calls[k].svc = "llm" =>
                  /\ calls[k].text # <<>>
                  /\ rets[1].status = "ok" /\ calls[k].text = rets[1].text

C20_Witness ==
    /\ endpoint = "voice" /\ pc = "done" /\ Len(rets) = 1
    /\ rets[1].status = "ok" /\ rets[1].text = <<>> /\ rets[1].lang = <<"en">>
    /\ reply.status = 400 /\ Len(calls) = 1

-----------------------------------------------------------------------------
(* The page loop of /document *)

\* C17: in a /document request on a PDF the vision calls are sequential and in
\* page order: at most one call of the request is outstanding, the i-th vision
\* call is on page i, and the call for page i+1 is there only once the call for
\* page i has returned.
C17_VisionCallsSequential ==
    (endpoint = "document" /\ file_type = "pdf") =>
        LET v == CallsTo("vision") IN
        /\ Len(calls) - Len(rets) \in {0, 1}
        /\ Len(v) <= Len(images)
        /\ \A i \in 1..Len(v) :
              /\ calls[v[i]].img = b64encode(MAGIC_PNG \o <<i>>)
              /\ StartsWith(calls[v[i]].text, PagePromptHead \o Str(i) \o PagePromptSep)
              /\ i < Len(v) =>
                    /\ v[i + 1] = v[i] + 1
                    /\ Len(rets) >= v[i] /\ rets[v[i]].status = "ok"

C17_Witness ==
    /\ endpoint = "document" /\ file_type = "pdf" /\ Len(images) = 3
    /\ Len(CallsTo("vision")) = 2
    /\ pc = "await_vision" /\ Len(rets) = Len(calls) - 1

-----------------------------------------------------------------------------
(* Scratch paths of concurrent requests *)

\* the scratch paths worker p's request is using: the .wav from its creation to
\* its unlink, the .ogg derived from it up to its unlink, the directory of
\* office_to_pdf
PathsInUse(p) ==
    LET w == workers[p] IN
    (IF w.pc \in {"ffmpeg", "read", "unlink_wav"} THEN {Path("wav", w.name)} ELSE {})
    \cup (IF w.pc \in {"ffmpeg", "read", "unlink_wav", "unlink_ogg"}
          THEN {Path("ogg", w.name)} ELSE {})
    \cup (IF w.pc \in {"convert", "cleanup"} THEN {Path("dir", w.name)} ELSE {})

\* C19: at every moment the scratch paths in use by different requests are
\* pairwise distinct, and no request loses a scratch file to another: the OGG
\* its ffmpeg wrote is there when it opens it.
C19_ScratchPathsDistinct ==
    /\ \A p, q \in Procs : p # q => PathsInUse(p) \cap PathsInUse(q) = {}
    /\ \A p \in Procs : workers[p].pc = "read" => Path("ogg", workers[p].name) \in fs

====
